---------------------------- MODULE Spec2Model ----------------------------
(***************************************************************************)
(* Random-Image-Selector: the Selector (randomImageSellector2.py) and the  *)
(* Viewer (app_ui.py, started by main.py).                                 *)
(*                                                                         *)
(* File names are sequences of one-character strings, so that lower() and  *)
(* endswith() are computed character by character.  The image folder is a  *)
(* listing (the order os.listdir returns) or Missing.  The pseudo-random   *)
(* generator of the random module is a deterministic generator with a     *)
(* small state.  The content of a file is read by Image.open only, so it   *)
(* is chosen by the environment at the moment of the read.                 *)
(***************************************************************************)
EXTENDS Naturals, Sequences, FiniteSets

VARIABLES
    dir,        \* the image folder: Missing, or the listing os.listdir returns
    rng,        \* state of the random module's generator
    label,      \* Tk options of self.image_label: [image, text]
    image_ref,  \* the attribute self.image_label.image
    phase,      \* "init" (in __init__, before line 69), "mainloop", "crashed", "off"
    last,       \* the most recent call of on_button_click: its outcome and the
                \* path chosen, whether the folder existed, the size of the
                \* bitmap decoded, and the -image option before the call
    seed,       \* SpecRuns: the seed both runs start from
    runs        \* SpecRuns: per run, the generator state and the values returned

vars == <<dir, rng, label, image_ref, phase, last, seed, runs>>

----------------------------------------------------------------------------
(* Bounds *)

MaxEntries == 2     \* entries in the image folder
RngStates == 3      \* states of the generator
MaxCalls == 2       \* selector calls per run in SpecRuns

----------------------------------------------------------------------------
(* Strings *)

UpperCase == <<"A","B","C","D","E","F","G","H","I","J","K","L","M",
               "N","O","P","Q","R","S","T","U","V","W","X","Y","Z">>
LowerCase == <<"a","b","c","d","e","f","g","h","i","j","k","l","m",
               "n","o","p","q","r","s","t","u","v","w","x","y","z">>

\* str.lower() on one character
lower_char(c) ==
    LET at == { i \in 1..Len(UpperCase) : UpperCase[i] = c } IN
    IF at = {} THEN c ELSE LowerCase[CHOOSE i \in at : TRUE]

\* str.lower()
lower(s) == [i \in 1..Len(s) |-> lower_char(s[i])]

\* str.endswith(t) for one suffix t
endswith_one(s, t) ==
    /\ Len(t) <= Len(s)
    /\ SubSeq(s, Len(s) - Len(t) + 1, Len(s)) = t

\* str.endswith(tuple): any of the suffixes
endswith(s, suffixes) == \E k \in 1..Len(suffixes) : endswith_one(s, suffixes[k])

----------------------------------------------------------------------------
(* Selector: randomImageSellector2.py *)

image_folder == "enter your image folder"

valid_extensions ==
    << <<".","j","p","g">>, <<".","j","p","e","g">>, <<".","p","n","g">>,
       <<".","g","i","f">>, <<".","b","m","p">> >>

\* the names a folder entry may have
Names ==
    { <<"a",".","j","p","g">>,
      <<"B",".","P","N","G">>,
      <<".","g","i","f">>,
      <<"e","b","m","p">>,
      <<"f",".","j","p","e","g",".","b","a","k">> }

\* the folder does not exist: os.listdir raises FileNotFoundError
Missing == [exists |-> FALSE, entries |-> <<>>]

Listings ==
    UNION { { s \in [1..n -> Names] : \A i, j \in 1..n : i # j => s[i] # s[j] }
            : n \in 0..MaxEntries }

\* the states of the image folder
Folders == { [exists |-> TRUE, entries |-> s] : s \in Listings } \cup {Missing}

\* os.path.join(image_folder, name)
join(folder, name) == <<folder, "/">> \o name

\* os.path.basename, the inverse of join on a listed name
basename(path) == SubSeq(path, 3, Len(path))

\* random._randbelow(n) on generator state r
randbelow(r, n) == r % n

\* the generator state after one draw
advance(r) == (r + 1) % RngStates

\* the list comprehension of lines 21-24, without the filter
image_files_unfiltered(listing) == listing

\* the list comprehension of lines 21-24
image_files(listing) ==
    SelectSeq(listing, LAMBDA f : endswith(lower(f), valid_extensions))

NoPath == <<>>

\* random.choice(all_files) of a possibly empty list: IndexError when empty
random_image_selector2_nocheck(r, d) ==
    IF ~d.exists
    THEN [tag |-> "FileNotFoundError", path |-> NoPath, rng |-> r]
    ELSE LET all_files == image_files(d.entries) IN
         IF Len(all_files) = 0
         THEN [tag |-> "IndexError", path |-> NoPath, rng |-> r]
         ELSE [tag |-> "str",
               path |-> join(image_folder, all_files[randbelow(r, Len(all_files)) + 1]),
               rng |-> advance(r)]

\* a selector that does not return the path of the image shown
random_image_selector2_norepeat(r, d) ==
    IF ~d.exists
    THEN [tag |-> "FileNotFoundError", path |-> NoPath, rng |-> r]
    ELSE LET all_files == SelectSeq(image_files(d.entries),
                                    LAMBDA f : join(image_folder, f) # last.path) IN
         IF Len(all_files) = 0
         THEN [tag |-> "None", path |-> NoPath, rng |-> r]
         ELSE [tag |-> "str",
               path |-> join(image_folder, all_files[randbelow(r, Len(all_files)) + 1]),
               rng |-> advance(r)]

\* random_image_selector2() called with generator state r on folder d:
\* what it returns or raises, and the generator state it leaves
random_image_selector2(r, d) ==
    IF ~d.exists
    THEN [tag |-> "FileNotFoundError", path |-> NoPath, rng |-> r]
    ELSE LET all_files == image_files(d.entries) IN
         IF Len(all_files) = 0
         THEN [tag |-> "None", path |-> NoPath, rng |-> r]
         ELSE [tag |-> "str",
               path |-> join(image_folder, all_files[randbelow(r, Len(all_files)) + 1]),
               rng |-> advance(r)]

----------------------------------------------------------------------------
(* Viewer: app_ui.py *)

\* the label's -image option when no image is set
NoPhoto == [set |-> FALSE, src |-> NoPath, size |-> <<0, 0>>]

NoImagesText == "No images found in folder."
ErrorText == "Error loading image."

ResizeWidth == 1000
ResizeHeight == 500

\* what Image.open may find in a file: undecodable, or a bitmap of some size
FileContents ==
    { [ok |-> FALSE, size |-> <<0, 0>>] } \cup
    { [ok |-> TRUE, size |-> s] : s \in { <<640, 480>>, <<4000, 3000>> } }

\* Image.open(image_path) on a decodable file
Image_open(path, data) == [src |-> path, size |-> data.size]

\* img.resize(...) with its result dropped
resize_discarded(img, size) == img

\* img.resize(size, LANCZOS)
resize(img, size) == [img EXCEPT !.size = size]

\* ImageTk.PhotoImage(img)
PhotoImage(img) == [set |-> TRUE, src |-> img.src, size |-> img.size]

\* keyword arguments of Label.config: not passed, passed as None, passed a value
KwAbsent == [kw |-> "absent", v |-> NoPhoto]
KwNone == [kw |-> "None", v |-> NoPhoto]
Kw(value) == [kw |-> "value", v |-> value]

\* Label.config(image=..., text=...): tkinter passes Tk only the options whose
\* value is not None, so image=None leaves the -image option as it was
config(lbl, image, text) ==
    [image |-> IF image.kw = "value" THEN image.v ELSE lbl.image,
     text  |-> IF text.kw = "value" THEN text.v ELSE lbl.text]

\* What the label shows: with compound=none (the default) the image when the
\* -image option is set, and the text otherwise; the image is blank once the
\* PhotoImage object is no longer referenced
ShownKind ==
    IF label.image.set
    THEN (IF image_ref = label.image THEN "image" ELSE "blank")
    ELSE "text"

ShownImage == label.image
ShownText == label.text

\* the record of a call of on_button_click made in the current state
Press(outcome, path, source_size) ==
    [outcome |-> outcome, path |-> path, listed |-> dir.exists,
     source_size |-> source_size, before |-> label.image]

NoPress ==
    [outcome |-> "none", path |-> NoPath, listed |-> FALSE,
     source_size |-> <<0, 0>>, before |-> NoPhoto]

\* on_button_click(), the file chosen holding `data` when it is opened
on_button_click(data) ==
    LET sel == random_image_selector2(rng, dir) IN
    /\ rng' = sel.rng
    /\ IF sel.tag \notin {"str", "None"}
       THEN \* line 134 raises: nothing below it runs
            /\ last' = Press("raised", NoPath, <<0, 0>>)
            /\ UNCHANGED <<label, image_ref>>
       ELSE IF sel.tag = "None"
       THEN \* lines 136-139
            /\ label' = config(label, KwNone, Kw(NoImagesText))
            /\ last' = Press("absent", NoPath, <<0, 0>>)
            /\ UNCHANGED image_ref
       ELSE IF data.ok
       THEN \* lines 142-151
            LET img == resize(Image_open(sel.path, data), <<ResizeWidth, ResizeHeight>>)
                photo_image == PhotoImage(img)
            IN /\ label' = config(label, Kw(photo_image), KwAbsent)
               /\ image_ref' = photo_image
               /\ last' = Press("image", sel.path, data.size)
       ELSE \* lines 153-155
            /\ label' = config(label, KwNone, Kw(ErrorText))
            /\ last' = Press("decode_error", sel.path, <<0, 0>>)
            /\ UNCHANGED image_ref

\* ImageViewerApp.__init__ from line 69 on, then main() entering mainloop; an
\* exception leaves main() and ends the process
Construct ==
    /\ phase = "init"
    /\ \E data \in FileContents : on_button_click(data)
    /\ phase' = IF last'.outcome = "raised" THEN "crashed" ELSE "mainloop"
    /\ UNCHANGED <<dir, seed, runs>>

\* the button's command=self.on_button_click, dispatched by mainloop; Tk
\* reports an exception of the callback and goes on
ButtonCommand ==
    /\ phase = "mainloop"
    /\ \E data \in FileContents : on_button_click(data)
    /\ UNCHANGED <<dir, phase, seed, runs>>

----------------------------------------------------------------------------
(* The folder changes under the program *)

Running == phase \in {"init", "mainloop"}

Range(s) == { s[i] : i \in 1..Len(s) }

CreateFile ==
    /\ Running
    /\ dir.exists
    /\ Len(dir.entries) < MaxEntries
    /\ \E n \in Names \ Range(dir.entries) : \E i \in 0..Len(dir.entries) :
          dir' = [dir EXCEPT !.entries = SubSeq(@, 1, i) \o <<n>> \o SubSeq(@, i + 1, Len(@))]
    /\ UNCHANGED <<rng, label, image_ref, phase, last, seed, runs>>

DeleteFile ==
    /\ Running
    /\ dir.exists
    /\ \E i \in 1..Len(dir.entries) :
          dir' = [dir EXCEPT !.entries = SubSeq(@, 1, i - 1) \o SubSeq(@, i + 1, Len(@))]
    /\ UNCHANGED <<rng, label, image_ref, phase, last, seed, runs>>

RemoveDir ==
    /\ Running
    /\ dir.exists
    /\ dir' = Missing
    /\ UNCHANGED <<rng, label, image_ref, phase, last, seed, runs>>

MakeDir ==
    /\ Running
    /\ ~dir.exists
    /\ dir' = [exists |-> TRUE, entries |-> <<>>]
    /\ UNCHANGED <<rng, label, image_ref, phase, last, seed, runs>>

----------------------------------------------------------------------------
(* The application *)

Init ==
    /\ dir \in Folders
    /\ rng \in 0..(RngStates - 1)
    /\ label = [image |-> NoPhoto, text |-> ""]
    /\ image_ref = NoPhoto
    /\ phase = "init"
    /\ last = NoPress
    /\ seed = 0
    /\ runs = <<>>

Next ==
    \/ Construct
    \/ ButtonCommand
    \/ CreateFile
    \/ DeleteFile
    \/ RemoveDir
    \/ MakeDir

Spec == Init /\ [][Next]_vars

----------------------------------------------------------------------------
(* Two runs of the selector from one seed on one file list *)

RunIds == {1, 2}

\* a call whose draw comes from the operating system's entropy
RunCall_SystemRandom(r) ==
    /\ Len(runs[r].out) < MaxCalls
    /\ \E k \in 0..(RngStates - 1) :
          LET sel == random_image_selector2(k, dir) IN
          runs' = [runs EXCEPT ![r] = [rng |-> sel.rng,
                                       out |-> Append(@.out, [tag |-> sel.tag, path |-> sel.path])]]
    /\ UNCHANGED <<dir, rng, label, image_ref, phase, last, seed>>

\* run r calls random_image_selector2()
RunCall(r) ==
    /\ Len(runs[r].out) < MaxCalls
    /\ LET sel == random_image_selector2(runs[r].rng, dir) IN
       runs' = [runs EXCEPT ![r] = [rng |-> sel.rng,
                                    out |-> Append(@.out, [tag |-> sel.tag, path |-> sel.path])]]
    /\ UNCHANGED <<dir, rng, label, image_ref, phase, last, seed>>

InitRuns ==
    /\ dir \in Folders
    /\ seed \in 0..(RngStates - 1)
    /\ runs = [r \in RunIds |-> [rng |-> seed, out |-> <<>>]]
    /\ rng = 0
    /\ label = [image |-> NoPhoto, text |-> ""]
    /\ image_ref = NoPhoto
    /\ phase = "off"
    /\ last = NoPress

NextRuns == \E r \in RunIds : RunCall(r)

SpecRuns == InitRuns /\ [][NextRuns]_vars

----------------------------------------------------------------------------
(* Properties *)

FiveSuffixes ==
    { <<".","j","p","g">>, <<".","j","p","e","g">>, <<".","p","n","g">>,
      <<".","g","i","f">>, <<".","b","m","p">> }

\* the lowercased name n ends with t, character by character
LowerEndsWith(n, t) ==
    /\ Len(n) >= Len(t)
    /\ \A j \in 1..Len(t) : lower_char(n[Len(n) - Len(t) + j]) = t[j]

Recognized(n) == \E t \in FiveSuffixes : LowerEndsWith(n, t)

\* C1: every path the selector returns is image_folder joined with an entry
\* of the folder whose lowercased name ends with one of the five suffixes.
C1_ReturnsOnlyRecognizedEntries ==
    \A r \in RunIds : \A i \in 1..Len(runs[r].out) :
        LET o == runs[r].out[i] IN
        o.tag = "str" =>
            \E n \in Range(dir.entries) :
                /\ o.path = <<image_folder, "/">> \o n
                /\ Recognized(n)

\* C1 witness: an upper-case name was returned from a folder that also holds
\* a name with a suffix in its middle only.
C1_Witness ==
    /\ <<"f",".","j","p","e","g",".","b","a","k">> \in Range(dir.entries)
    /\ \E r \in RunIds : \E i \in 1..Len(runs[r].out) :
          /\ runs[r].out[i].tag = "str"
          /\ basename(runs[r].out[i].path) = <<"B",".","P","N","G">>

\* C5: on a folder that exists and holds no recognized entry, every call
\* returns None and none raises.
C5_NoMatchReturnsNone ==
    (dir.exists /\ \A n \in Range(dir.entries) : ~Recognized(n)) =>
        \A r \in RunIds : \A i \in 1..Len(runs[r].out) :
            runs[r].out[i] = [tag |-> "None", path |-> NoPath]

\* C5 witness: a call was made on a folder holding only unrecognized names.
C5_Witness ==
    /\ dir.exists
    /\ Len(dir.entries) > 0
    /\ \A n \in Range(dir.entries) : ~Recognized(n)
    /\ \E r \in RunIds : Len(runs[r].out) > 0

MayReturn ==
    { [tag |-> random_image_selector2(r, dir).tag,
       path |-> random_image_selector2(r, dir).path] : r \in 0..(RngStates - 1) }

\* C10: whatever the earlier calls returned, a call may return exactly the
\* recognized entries of the folder as it is now (None when there is none).
C10_CandidatesAreTheCurrentFolder ==
    dir.exists =>
        MayReturn =
            IF \A n \in Range(dir.entries) : ~Recognized(n)
            THEN { [tag |-> "None", path |-> NoPath] }
            ELSE { [tag |-> "str", path |-> <<image_folder, "/">> \o n] :
                       n \in { m \in Range(dir.entries) : Recognized(m) } }

\* C10 witness: the path of the image shown by the last press may be
\* returned again, among others.
C10_Witness ==
    /\ last.outcome = "image"
    /\ [tag |-> "str", path |-> last.path] \in MayReturn
    /\ Cardinality(MayReturn) >= 2

\* C7: after a press that decoded its file, the label shows the bitmap of the
\* path chosen, ResizeWidth wide and ResizeHeight high.
C7_ShownImageHasTheFixedSize ==
    last.outcome = "image" =>
        /\ ShownKind = "image"
        /\ ShownImage.src = last.path
        /\ ShownImage.size = <<ResizeWidth, ResizeHeight>>

\* C7 witness: a file of another size was decoded and took the place of the
\* image of another file.
C7_Witness ==
    /\ last.outcome = "image"
    /\ last.source_size = <<4000, 3000>>
    /\ last.before.set
    /\ last.before.src # last.path
    /\ ShownImage.src = last.path

DocWidth == 800
DocHeight == 500

\* C8: the image shown after a press that decoded its file is 800 wide and
\* 500 high.
C8_ShownImageIs800x500 ==
    last.outcome = "image" => ShownImage.size = <<DocWidth, DocHeight>>

\* C2: after a press in which the selector returned None, the label shows
\* the text "No images found in folder." and no image.
C2_AbsenceShowsNoImagesText ==
    last.outcome = "absent" =>
        /\ ShownKind = "text"
        /\ ShownText = NoImagesText

\* C3: while the window is up, the label shows the outcome of the most recent
\* press: its bitmap if it decoded one, a placeholder text and no bitmap if
\* the selection or the decoding failed.
C3_DisplayIsTheLastOutcome ==
    phase = "mainloop" =>
        /\ last.outcome = "image" =>
              ShownKind = "image" /\ ShownImage.src = last.path
        /\ last.outcome \in {"absent", "decode_error", "raised"} =>
              ShownKind = "text" /\ ShownText \in {NoImagesText, ErrorText}

\* C4: a press made while the folder is missing ends as one made on a folder
\* with no recognized entry: the selector returns None and the label shows
\* "No images found in folder.".
C4_MissingFolderIsAbsence ==
    (last.outcome # "none" /\ ~last.listed) =>
        /\ last.outcome = "absent"
        /\ ShownKind = "text"
        /\ ShownText = NoImagesText

\* C6: after a press whose file failed to decode, no exception has left
\* on_button_click and the label shows the text "Error loading image.",
\* which is not the text of absence.
C6_DecodeFailureShowsErrorText ==
    last.outcome = "decode_error" =>
        /\ phase = "mainloop"
        /\ ShownKind = "text"
        /\ ShownText = ErrorText
        /\ ErrorText # NoImagesText

============================================================================
